---- MODULE Spec2Model ----
(***************************************************************************)
(* Model of the Cub file reader (src/cubfile.c): header check, table of    *)
(* contents, block extraction by index and by type, and the lister.        *)
(*                                                                         *)
(* A file is a sequence of bytes.  A 32-bit word is the 4-tuple of its     *)
(* base-256 digits, most significant first, so that 0xFFFFFFFF needs no    *)
(* integer wider than 32 bits.  Memory is a sequence of bytes; the         *)
(* host's byte order decides how 4 bytes of memory load as a word.         *)
(***************************************************************************)
EXTENDS Integers, Sequences, FiniteSets, TLC

VARIABLES file, meta, hostByte, errno, live,
          op, arg, ret, swapOut, countOut, blocks, sink, sel, oob,
          allocs, frees, listing

vars == <<file, meta, hostByte, errno, live, op, arg, ret, swapOut, countOut,
          blocks, sink, sel, oob, allocs, frees, listing>>

-----------------------------------------------------------------------------
(* Bounds of the model *)

MaxShort == 2     \* short transfers a copy may meet before transfers are full
MaxLive  == 2     \* scratch buffers that may be live before the lister is held back
MaxCap   == 4     \* largest capacity passed to cub_file_contents
MaxIdx   == 3     \* largest block index passed to cub_file_block
MaxNeg   == 2     \* block indices go down to -MaxNeg

-----------------------------------------------------------------------------
(* Program constants *)

BufSize == 1024                     \* unsigned char buffer[1024]
BIGENDIAN == <<255, 255, 255, 255>>
LITENDIAN == <<0, 0, 0, 0>>
CUB_FILE_INVALID == -1
CUB_FILE_CORRUPT == -2
CUB_FILE_OVERFLOW == -3
CUB_FILE_NOT_FOUND == -4
CUB_FILE_ASSEMBLY  == 6
ENOSPC == 28                        \* errno of a write to a full sink
MagicTag == <<67, 85, 66, 69>>      \* "CUBE"
WordSize == 4                       \* sizeof(uint32_t)
RecWords == 6                       \* words of the header and of one TOC record

Min(a, b) == IF a < b THEN a ELSE b

-----------------------------------------------------------------------------
(* Words and memory *)

\* the word with value n, 0 <= n < 2^31
W(n) == <<(n \div 16777216) % 256, (n \div 65536) % 256, (n \div 256) % 256, n % 256>>

\* (int) of a uint32_t: two's complement
I32(w) == (IF w[1] >= 128 THEN w[1] - 256 ELSE w[1]) * 16777216
            + w[2] * 65536 + w[3] * 256 + w[4]

\* (unsigned long) of a uint32_t; the files of the model keep these below 2^31
U32(w) == w[1] * 16777216 + w[2] * 65536 + w[3] * 256 + w[4]

Reverse(s) == [i \in 1..Len(s) |-> s[Len(s) + 1 - i]]

\* the uint32_t a host reads from 4 bytes of memory; hostByte is the first
\* byte of the unsigned 1 in memory: 1 on a little-endian host, 0 on a big one
Load(mem, hb) == IF hb = 1 THEN Reverse(mem) ELSE mem

\* data[k] of a uint32_t array held in memory bytes
WordAt(mem, k, hb) == Load(SubSeq(mem, WordSize * k + 1, WordSize * k + WordSize), hb)

get_endian_flipped(hb) == <<LITENDIAN, BIGENDIAN>>[hb + 1]

get_endian(hb) == <<BIGENDIAN, LITENDIAN>>[hb + 1]

\* endptr = curptr + count, the width forgotten
swap_bytes_short(bytes, count, width) ==
  [i \in 1..Len(bytes) |->
     LET g == (i - 1) \div width
         r == (i - 1) % width
     IN IF g * width < count /\ (g + 1) * width <= Len(bytes)
          THEN bytes[g * width + (width - 1 - r) + 1]
          ELSE bytes[i]]

swap_bytes(bytes, count, width) ==
  [i \in 1..Len(bytes) |->
     IF i <= count * width
       THEN LET g == (i - 1) \div width
                r == (i - 1) % width
            IN bytes[g * width + (width - 1 - r) + 1]
       ELSE bytes[i]]

-----------------------------------------------------------------------------
(* stdio *)

\* items fread(buf, size, nitems, f) delivers at position pos
fread_items(f, pos, size, nitems) ==
  IF pos >= Len(f) THEN 0 ELSE Min(nitems, (Len(f) - pos) \div size)

fread_bytes(f, pos, n) == SubSeq(f, pos + 1, pos + n)

-----------------------------------------------------------------------------
(* check_file_internal, cub_file_check *)

\* data[0] compared as a byte
bad_endian_tag_byte(tag) == tag[4] # BIGENDIAN[4] /\ tag[4] # LITENDIAN[4]

\* data[0] != BIGENDIAN && data[0] != LITENDIAN
bad_endian_tag(tag) == tag # BIGENDIAN /\ tag # LITENDIAN

\* memcmp( buffer, "CUBE", 4 ): non-zero when the bytes differ
memcmp_magic3(buffer) == SubSeq(buffer, 1, 3) # SubSeq(MagicTag, 1, 3)

memcmp_magic(buffer) == buffer # MagicTag

\* g holds what the uninitialised locals and heap cells of one call contain
check_file_internal(f, hb, e, g) ==
  LET unset == [swap |-> g.swap, count |-> g.count, offset |-> g.offset]
  IN IF fread_items(f, 0, 4, 1) = 0
       THEN [ret |-> e] @@ unset
     ELSE IF memcmp_magic(fread_bytes(f, 0, 4))
       THEN [ret |-> CUB_FILE_INVALID] @@ unset
     ELSE IF fread_items(f, 4, WordSize, RecWords) # RecWords
       THEN [ret |-> e] @@ unset
     ELSE LET raw  == fread_bytes(f, 4, WordSize * RecWords)
              tag  == WordAt(raw, 0, hb)
              swap == IF tag # get_endian(hb) THEN 1 ELSE 0
              data == IF swap # 0 THEN swap_bytes(raw, RecWords, WordSize) ELSE raw
          IN IF bad_endian_tag(tag)
               THEN [ret |-> CUB_FILE_CORRUPT] @@ unset
               ELSE [ret    |-> 0,
                     swap   |-> swap,
                     count  |-> I32(WordAt(data, 2, hb)),
                     offset |-> U32(WordAt(data, 3, hb))]

\* swapPtr, countPtr: whether the caller passes a non-null pointer; an output
\* is <<>> while unwritten and <<v>> once written
cub_file_check(f, hb, e, g, swapPtr, countPtr) ==
  LET r == check_file_internal(f, hb, e, g)
  IN IF r.ret # 0
       THEN [ret |-> r.ret, swap |-> <<>>, count |-> <<>>]
       ELSE [ret   |-> 0,
             swap  |-> IF swapPtr THEN <<r.swap>> ELSE <<>>,
             count |-> IF countPtr THEN <<r.count>> ELSE <<>>]

-----------------------------------------------------------------------------
(* cub_file_contents *)

Descriptor(data, hb) ==
  [type   |-> U32(WordAt(data, 0, hb)),
   offset |-> U32(WordAt(data, 1, hb)),
   length |-> U32(WordAt(data, 2, hb))]

RECURSIVE toc_loop(_, _, _, _, _, _, _, _)
toc_loop(f, hb, e, swap, pos, count, i, arr) ==
  IF ~(i < count) THEN [ret |-> 0, blocks |-> arr]
  ELSE IF fread_items(f, pos, WordSize, RecWords) # RecWords
    THEN [ret |-> e, blocks |-> arr]
  ELSE LET raw  == fread_bytes(f, pos, WordSize * RecWords)
           data == IF swap # 0 THEN swap_bytes(raw, RecWords, WordSize) ELSE raw
       IN toc_loop(f, hb, e, swap, pos + WordSize * RecWords, count, i + 1,
                   (i :> Descriptor(data, hb)) @@ arr)

\* arr: the caller's array, a function of the element indices that hold a value
cub_file_contents(f, hb, e, g, arr, blocks_length) ==
  LET r == check_file_internal(f, hb, e, g)
  IN IF r.ret # 0 THEN [ret |-> r.ret, blocks |-> arr]
     ELSE IF blocks_length < r.count THEN [ret |-> CUB_FILE_OVERFLOW, blocks |-> arr]
     ELSE toc_loop(f, hb, e, r.swap, r.offset, r.count, 0, arr)

-----------------------------------------------------------------------------
(* cub_file_list *)

typenames == <<"?", "ACIS", "MESH", "FACET", "FREE MESH", "GRANITE", "ASSEMBLY">>

\* malloc( count * sizeof(struct CubFileBlock) ): fresh cells hold g.blk; a
\* negative count asks for more than the address space and yields NULL
malloc_blocks(count, g) == [i \in 0..(count - 1) |-> g.blk]

malloc_live(count) == IF count > 0 THEN 1 ELSE 0

print_error(err) == IF err > 0 THEN <<"perror", err>> ELSE <<"error", 0 - err>>

table_row(i, d) ==
  [idx    |-> i,
   name   |-> IF d.type <= CUB_FILE_ASSEMBLY THEN typenames[d.type + 1] ELSE typenames[1],
   type   |-> d.type,
   offset |-> d.offset,
   length |-> d.length]

cub_file_list(f, hb, e, g) ==
  LET chk == cub_file_check(f, hb, e, g, FALSE, TRUE)
  IN IF chk.ret # 0
       THEN [out |-> print_error(chk.ret), allocs |-> 0, frees |-> 0]
     ELSE LET count == chk.count[1]
          IN IF count = 0
               THEN [out |-> <<"empty">>, allocs |-> 0, frees |-> 0]
             ELSE LET a == malloc_live(count)
                      r == cub_file_contents(f, hb, e, g, malloc_blocks(count, g), count)
                  IN IF r.ret # 0
                       THEN [out |-> print_error(r.ret), allocs |-> a, frees |-> a]
                       ELSE [out    |-> <<"table",
                                          [i \in 1..count |-> table_row(i - 1, r.blocks[i - 1])]>>,
                             allocs |-> a,
                             frees  |-> 0]

-----------------------------------------------------------------------------
(* internal_copy_data *)

\* the most bytes the n-th transfer of a call moves: the environment cuts the
\* first Len(sched) transfers short
Limit(sched, n) == IF n <= Len(sched) THEN sched[n] ELSE BufSize

\* bytes one fwrite of count bytes moves into a sink with room for `room` more
fwrite_count(count, room, limit) == Min(Min(count, limit), room)

\* ptr += ww forgotten: after a short write the buffer is written from its start
RECURSIVE write_loop_noadvance(_, _, _, _, _)
write_loop_noadvance(buf, snk, cap, ws, wi) ==
  IF Len(buf) = 0 THEN [ok |-> TRUE, sink |-> snk, wi |-> wi]
  ELSE LET ww == fwrite_count(Len(buf), cap - Len(snk), Limit(ws, wi))
       IN IF ww = 0
            THEN [ok |-> FALSE, sink |-> snk, wi |-> wi]
            ELSE write_loop_noadvance(SubSeq(buf, 1, Len(buf) - ww),
                                      snk \o SubSeq(buf, 1, ww), cap, ws, wi + 1)

RECURSIVE write_loop(_, _, _, _, _)
write_loop(buf, snk, cap, ws, wi) ==
  IF Len(buf) = 0 THEN [ok |-> TRUE, sink |-> snk, wi |-> wi]
  ELSE LET ww == fwrite_count(Len(buf), cap - Len(snk), Limit(ws, wi))
       IN IF ww = 0
            THEN [ok |-> FALSE, sink |-> snk, wi |-> wi]
            ELSE write_loop(SubSeq(buf, ww + 1, Len(buf)), snk \o SubSeq(buf, 1, ww),
                            cap, ws, wi + 1)

RECURSIVE copy_loop(_, _, _, _, _, _, _, _, _, _)
copy_loop(f, pos, length, e, snk, cap, rs, ri, ws, wi) ==
  IF length = 0 THEN [ret |-> 0, sink |-> snk, errno |-> e]
  ELSE LET want  == IF length < BufSize THEN length ELSE BufSize
           avail == IF pos >= Len(f) THEN 0 ELSE Len(f) - pos
           count == Min(Min(want, Limit(rs, ri)), avail)
       IN IF count = 0
            THEN [ret |-> e, sink |-> snk, errno |-> e]
            ELSE LET w == write_loop(fread_bytes(f, pos, count), snk, cap, ws, wi)
                 IN IF ~w.ok
                      THEN [ret |-> ENOSPC, sink |-> w.sink, errno |-> ENOSPC]
                      ELSE copy_loop(f, pos + count, length - count, e, w.sink, cap,
                                     rs, ri + 1, ws, w.wi)

\* cap: the bytes the sink has room for; rs, ws: the short reads and writes
internal_copy_data(f, offset, length, e, cap, rs, ws) ==
  copy_loop(f, offset, length, e, <<>>, cap, rs, 1, ws, 1)

-----------------------------------------------------------------------------
(* cub_file_block, cub_file_type *)

NoSel == <<>>

\* the result of a lookup that copies nothing
NoCopy(r, e, a, fr, outside) ==
  [ret |-> r, sink |-> <<>>, errno |-> e, sel |-> NoSel, oob |-> outside,
   allocs |-> a, frees |-> fr]

\* the result of a lookup that copies descriptor d
Copy(f, d, e, a, outside, cap, rs, ws) ==
  LET c == internal_copy_data(f, d.offset, d.length, e, cap, rs, ws)
  IN [ret |-> c.ret, sink |-> c.sink, errno |-> c.errno, sel |-> <<d>>,
      oob |-> outside, allocs |-> a, frees |-> a]

\* block >= count
index_past_end_off_by_one(block, count) == block > count

index_past_end(block, count) == block >= count

\* data[i]: outside the array the read yields whatever lies there
Element(data, i, g) == IF i \in DOMAIN data THEN data[i] ELSE g.blk

cub_file_block(f, hb, e, g, block, cap, rs, ws) ==
  LET chk == cub_file_check(f, hb, e, g, FALSE, TRUE)
  IN IF chk.ret # 0 THEN NoCopy(chk.ret, e, 0, 0, FALSE)
     ELSE LET count == chk.count[1]
          IN IF count = 0 THEN NoCopy(CUB_FILE_CORRUPT, e, 0, 0, FALSE)
             ELSE LET a == malloc_live(count)
                      r == cub_file_contents(f, hb, e, g, malloc_blocks(count, g), count)
                  IN IF r.ret # 0 THEN NoCopy(r.ret, e, a, a, FALSE)
                     ELSE IF index_past_end(block, count)
                       THEN NoCopy(CUB_FILE_NOT_FOUND, e, a, a, FALSE)
                     ELSE LET d       == Element(r.blocks, block, g)
                              outside == block \notin DOMAIN r.blocks
                          IN IF d.length = 0
                               THEN NoCopy(CUB_FILE_NOT_FOUND, e, a, a, outside)
                               ELSE Copy(f, d, e, a, outside, cap, rs, ws)

\* a scan that also passes over the empty blocks of the type
RECURSIVE type_scan_nonempty(_, _, _, _)
type_scan_nonempty(data, count, type, i) ==
  IF i < count /\ (data[i].type # type \/ data[i].length = 0)
    THEN type_scan_nonempty(data, count, type, i + 1) ELSE i

RECURSIVE type_scan(_, _, _, _)
type_scan(data, count, type, i) ==
  IF i < count /\ data[i].type # type THEN type_scan(data, count, type, i + 1) ELSE i

cub_file_type(f, hb, e, g, type, cap, rs, ws) ==
  LET chk == cub_file_check(f, hb, e, g, FALSE, TRUE)
  IN IF chk.ret # 0 THEN NoCopy(chk.ret, e, 0, 0, FALSE)
     ELSE LET count == chk.count[1]
          IN IF count = 0 THEN NoCopy(CUB_FILE_CORRUPT, e, 0, 0, FALSE)
             ELSE LET a == malloc_live(count)
                      r == cub_file_contents(f, hb, e, g, malloc_blocks(count, g), count)
                  IN IF r.ret # 0 THEN NoCopy(r.ret, e, a, a, FALSE)
                     ELSE LET i       == type_scan(r.blocks, count, type, 0)
                              outside == i # count /\ i \notin DOMAIN r.blocks
                          IN IF i = count
                               THEN NoCopy(CUB_FILE_NOT_FOUND, e, a, a, FALSE)
                             ELSE LET d == Element(r.blocks, i, g)
                                  IN IF d.length = 0
                                       THEN NoCopy(CUB_FILE_NOT_FOUND, e, a, a, outside)
                                       ELSE Copy(f, d, e, a, outside, cap, rs, ws)

-----------------------------------------------------------------------------
(* The files, hosts and environments of the model *)

Enc(w, end) == IF end = "L" THEN Reverse(w) ELSE w

EndianTag(end) == IF end = "L" THEN LITENDIAN ELSE BIGENDIAN

RECURSIVE Flatten(_)
Flatten(ss) == IF ss = <<>> THEN <<>> ELSE Head(ss) \o Flatten(Tail(ss))

Payload(n) == [i \in 1..n |-> (i * 37 + 11) % 251]

HeaderBytes(end, tag, cw, tocOff) ==
  MagicTag \o tag \o Enc(W(7), end) \o Enc(cw, end) \o Enc(W(tocOff), end)
           \o Enc(W(9), end) \o Enc(W(0), end)

RecordBytes(end, d) ==
  Enc(W(d.type), end) \o Enc(W(d.offset), end) \o Enc(W(d.length), end)
    \o Enc(W(5), end) \o Enc(W(0), end) \o Enc(W(3), end)

HeaderLen == Len(MagicTag) + WordSize * RecWords
RecLen == WordSize * RecWords

\* a file written in byte order `end`: header, TOC right after it, payload
\* right after the TOC; recs gives <<kind, offset within the payload, length>>.
\* The record keeps, next to the bytes, the values the file was written from.
MkFile(end, tag, cw, recs, payLen) ==
  LET p   == HeaderLen + RecLen * Len(recs)
      toc == [i \in 1..Len(recs) |-> [type   |-> recs[i][1],
                                      offset |-> p + recs[i][2],
                                      length |-> recs[i][3]]]
  IN [bytes |-> HeaderBytes(end, tag, cw, HeaderLen)
                  \o Flatten([i \in 1..Len(recs) |-> RecordBytes(end, toc[i])])
                  \o Payload(payLen),
      meta  |-> [end |-> end, tag |-> tag, cw |-> cw, toc |-> toc]]

BigLen == 2 * BufSize + 7

TocScenario == << <<2, 0, 10>>, <<0, 10, 0>> >>
TocDup      == << <<2, 0, 0>>, <<2, 0, 5>>, <<5, 5, 3>>, <<99, 1, 2>> >>
TocBig      == << <<1, 0, BufSize>>, <<2, 0, BigLen>>, <<3, 5, BufSize - 24>> >>

Scenario(end) == MkFile(end, EndianTag(end), W(Len(TocScenario)), TocScenario, 10)
Dup(end)      == MkFile(end, EndianTag(end), W(Len(TocDup)), TocDup, 8)
Empty(end)    == MkFile(end, EndianTag(end), W(0), <<>>, 0)
Huge(end)     == MkFile(end, EndianTag(end), <<255, 255, 255, 254>>, << <<2, 0, 4>> >>, 4)
Big(end)      == MkFile(end, EndianTag(end), W(Len(TocBig)), TocBig, BigLen)

BadTags == {W(1), <<255, 255, 255, 0>>, <<0, 255, 255, 255>>}

BadMagic(f) ==
  {[f EXCEPT !.bytes = b] :
     b \in {[f.bytes EXCEPT ![1] = 88], [f.bytes EXCEPT ![4] = 101],
            [f.bytes EXCEPT ![2] = 67, ![1] = 85]}}

Truncations(f) ==
  {[f EXCEPT !.bytes = SubSeq(f.bytes, 1, n)] :
     n \in {2, 4, HeaderLen - 8, HeaderLen + RecLen + 5, HeaderLen + 2 * RecLen + 4}}

Orders == {"B", "L"}

SmallFiles ==
  UNION {{Scenario(end), Dup(end), Empty(end), Huge(end)}
           \cup {MkFile(end, t, W(Len(TocScenario)), TocScenario, 10) : t \in BadTags}
           \cup BadMagic(Scenario(end))
           \cup Truncations(Scenario(end)) : end \in Orders}

BigFiles == {Big(end) : end \in Orders}

Files == SmallFiles \cup BigFiles

\* what uninitialised locals and fresh heap cells may hold
Garbage ==
  {[swap |-> 0, count |-> 1, offset |-> HeaderLen,
    blk |-> [type |-> 2, offset |-> 0, length |-> 0]],
   [swap |-> 1, count |-> 2, offset |-> 0,
    blk |-> [type |-> 5, offset |-> HeaderLen, length |-> 6]]}

ShortSizes == {1, BufSize - 24}

Scheds == UNION {[1..n -> ShortSizes] : n \in 0..MaxShort}

\* the short reads and the short writes one copy meets
Transfers == {t \in Scheds \X Scheds : Len(t[1]) + Len(t[2]) <= MaxShort}

NoShort == <<<<>>, <<>>>>

\* the transfers that can tell calls apart: r0 is the call's result with a sink
\* that takes nothing; a call that selects no block makes no transfer at all
TransfersFor(r0) == IF r0.sel = <<>> THEN {NoShort} ELSE Transfers

SinkCaps == {4, 4 * BufSize}

Kinds == {0, 2, 5, 99}

-----------------------------------------------------------------------------
(* State machine: one action per public operation *)

Init ==
  /\ \E f \in Files : file = f.bytes /\ meta = f.meta
  /\ hostByte \in {0, 1}
  /\ errno = 0
  /\ live = 0
  /\ op = "none" /\ arg = <<>> /\ ret = 0
  /\ swapOut = <<>> /\ countOut = <<>> /\ blocks = <<>>
  /\ sink = <<>> /\ sel = NoSel /\ oob = FALSE
  /\ allocs = 0 /\ frees = 0 /\ listing = <<>>

Env == UNCHANGED <<file, meta, hostByte>>

\* the caller is between two calls, its output variables freshly set up
Idle == op = "none"

Check ==
  /\ Idle
  /\ \E g \in Garbage, swapPtr \in BOOLEAN, countPtr \in BOOLEAN :
    LET r == cub_file_check(file, hostByte, errno, g, swapPtr, countPtr)
    IN /\ op' = "check" /\ arg' = <<swapPtr, countPtr>> /\ ret' = r.ret
       /\ swapOut' = r.swap /\ countOut' = r.count
       /\ blocks' = <<>> /\ sink' = <<>> /\ sel' = NoSel /\ oob' = FALSE
       /\ allocs' = 0 /\ frees' = 0 /\ listing' = <<>>
       /\ UNCHANGED <<errno, live>> /\ Env

Contents ==
  /\ Idle
  /\ \E g \in Garbage, blocks_length \in (0 - 1)..MaxCap :
    LET r == cub_file_contents(file, hostByte, errno, g, <<>>, blocks_length)
    IN /\ op' = "contents" /\ arg' = <<blocks_length>> /\ ret' = r.ret
       /\ blocks' = r.blocks
       /\ swapOut' = <<>> /\ countOut' = <<>> /\ sink' = <<>> /\ sel' = NoSel
       /\ oob' = FALSE /\ allocs' = 0 /\ frees' = 0 /\ listing' = <<>>
       /\ UNCHANGED <<errno, live>> /\ Env

List ==
  /\ Idle
  /\ live < MaxLive
  /\ \E g \in Garbage :
       LET r == cub_file_list(file, hostByte, errno, g)
       IN /\ op' = "list" /\ arg' = <<>> /\ ret' = 0
          /\ listing' = r.out
          /\ allocs' = r.allocs /\ frees' = r.frees
          /\ live' = live + r.allocs - r.frees
          /\ swapOut' = <<>> /\ countOut' = <<>> /\ blocks' = <<>>
          /\ sink' = <<>> /\ sel' = NoSel /\ oob' = FALSE
          /\ UNCHANGED errno /\ Env

Lookup(name, a, r) ==
  /\ op' = name /\ arg' = a /\ ret' = r.ret
  /\ sink' = r.sink /\ sel' = r.sel /\ oob' = r.oob
  /\ allocs' = r.allocs /\ frees' = r.frees
  /\ live' = live + r.allocs - r.frees
  /\ errno' = r.errno
  /\ swapOut' = <<>> /\ countOut' = <<>> /\ blocks' = <<>> /\ listing' = <<>>
  /\ Env

Block ==
  /\ Idle
  /\ \E g \in Garbage, block \in (0 - MaxNeg)..MaxIdx, cap \in SinkCaps :
     \E t \in TransfersFor(cub_file_block(file, hostByte, errno, g, block, 0, <<>>, <<>>)) :
    Lookup("block", <<block, cap, t[1], t[2]>>,
           cub_file_block(file, hostByte, errno, g, block, cap, t[1], t[2]))

Type ==
  /\ Idle
  /\ \E g \in Garbage, type \in Kinds, cap \in SinkCaps :
     \E t \in TransfersFor(cub_file_type(file, hostByte, errno, g, type, 0, <<>>, <<>>)) :
    Lookup("type", <<type, cap, t[1], t[2]>>,
           cub_file_type(file, hostByte, errno, g, type, cap, t[1], t[2]))

\* the caller takes the results of the call that returned and sets up fresh
\* output variables and a fresh sink for the next one
Return ==
  /\ ~Idle
  /\ op' = "none" /\ arg' = <<>> /\ ret' = 0
  /\ swapOut' = <<>> /\ countOut' = <<>> /\ blocks' = <<>>
  /\ sink' = <<>> /\ sel' = NoSel /\ oob' = FALSE
  /\ allocs' = 0 /\ frees' = 0 /\ listing' = <<>>
  /\ UNCHANGED <<errno, live>> /\ Env

Next == Check \/ Contents \/ List \/ Block \/ Type \/ Return

Spec == Init /\ [][Next]_vars

-----------------------------------------------------------------------------
(* What the file under test was written from, for stating the properties *)

MagicOk == Len(file) >= Len(MagicTag) /\ SubSeq(file, 1, Len(MagicTag)) = MagicTag

HeaderComplete == Len(file) >= HeaderLen

TagOk == meta.tag \in {BIGENDIAN, LITENDIAN}

HeaderPasses == MagicOk /\ HeaderComplete /\ TagOk

\* block_count as written, when it is below 2^31
CountSmall == meta.cw[1] < 128
BlockCount == U32(meta.cw)

\* all block_count records of the TOC are in the file (the TOC follows the header)
TocReadable == CountSmall /\ Len(file) >= HeaderLen + RecLen * BlockCount

WellFormed == HeaderPasses /\ TocReadable

Present(d) == d.offset + d.length <= Len(file)

PayloadOf(d) == SubSeq(file, d.offset + 1, d.offset + d.length)

HostOrder == IF hostByte = 1 THEN "L" ELSE "B"

IsLookup == op \in {"block", "type"}

\* the lowest element of a non-empty set of indices
Lowest(S) == CHOOSE i \in S : \A j \in S : i <= j

OfKind(k) == {i \in 1..Len(meta.toc) : meta.toc[i].type = k}

NonEmptyOfKind(k) == {i \in OfKind(k) : meta.toc[i].length # 0}

-----------------------------------------------------------------------------
(* Claims *)

\* C1: for a descriptor at a valid index with length L at offset O whose bytes
\* are in the file, cub_file_block leaves in the sink exactly the L bytes
\* [O, O+L) in order, for L = 0, L below, equal to and above the 1024-byte
\* buffer, however the reads and writes are split into short non-zero transfers.
C1_ExactCopy ==
  (/\ op = "block" /\ WellFormed
   /\ arg[1] \in 0..(BlockCount - 1)
   /\ Present(meta.toc[arg[1] + 1])
   /\ arg[2] >= meta.toc[arg[1] + 1].length)
  => LET d == meta.toc[arg[1] + 1]
     IN /\ sink = PayloadOf(d)
        /\ Len(sink) = d.length
        /\ ret = IF d.length = 0 THEN CUB_FILE_NOT_FOUND ELSE 0

C1_Witness ==
  /\ op = "block" /\ WellFormed /\ arg[1] \in 0..(BlockCount - 1)
  /\ meta.toc[arg[1] + 1].length = BigLen
  /\ Len(arg[3]) > 0 /\ Len(arg[4]) > 0
  /\ ret = 0 /\ Len(sink) = BigLen

\* C2 as stated: on every file that passes the header check, whatever its
\* block_count (0 included), an index >= block_count and a valid index of a
\* zero-length descriptor both return NotFound, with nothing written to the sink.
C2_Original ==
  (/\ op = "block" /\ HeaderPasses /\ CountSmall
   /\ \/ arg[1] >= BlockCount
      \/ /\ arg[1] \in 0..(BlockCount - 1)
         /\ meta.toc[arg[1] + 1].length = 0)
  => (ret = CUB_FILE_NOT_FOUND /\ sink = <<>>)

\* C2 amended: with block_count > 0 and the whole TOC readable, an index >=
\* block_count and a valid index of a zero-length descriptor both return
\* NotFound; with block_count = 0 the call returns CorruptFile whatever the
\* index; in all these cases nothing is written to the sink.
C2_Amended ==
  (op = "block" /\ WellFormed)
  => /\ BlockCount = 0 => (ret = CUB_FILE_CORRUPT /\ sink = <<>>)
     /\ (/\ BlockCount > 0
         /\ \/ arg[1] >= BlockCount
            \/ /\ arg[1] \in 0..(BlockCount - 1)
               /\ meta.toc[arg[1] + 1].length = 0)
        => (ret = CUB_FILE_NOT_FOUND /\ sink = <<>>)

C2_Witness ==
  /\ op = "block" /\ WellFormed /\ BlockCount > 0
  /\ arg[1] \in 0..(BlockCount - 1) /\ meta.toc[arg[1] + 1].length = 0
  /\ ret = CUB_FILE_NOT_FOUND

\* C3 as stated: among several descriptors of one kind cub_file_type copies the
\* lowest-index one whose length is non-zero, and returns NotFound only when
\* no descriptor of the kind has a non-zero length.
C3_Original ==
  (op = "type" /\ WellFormed /\ BlockCount > 0)
  => IF NonEmptyOfKind(arg[1]) = {}
       THEN ret = CUB_FILE_NOT_FOUND
       ELSE LET d == meta.toc[Lowest(NonEmptyOfKind(arg[1]))]
            IN /\ sel = <<d>>
               /\ (Present(d) /\ arg[2] >= d.length) => (ret = 0 /\ sink = PayloadOf(d))

\* C3 amended: cub_file_type selects the lowest-index descriptor of the kind,
\* whatever its length, the same one on every call: it copies that payload if
\* the length is non-zero and returns NotFound if the length is zero (also when
\* a later descriptor of the kind is not empty) or no descriptor has the kind.
C3_Amended ==
  (op = "type" /\ WellFormed /\ BlockCount > 0)
  => IF OfKind(arg[1]) = {}
       THEN ret = CUB_FILE_NOT_FOUND /\ sel = NoSel /\ sink = <<>>
       ELSE LET d == meta.toc[Lowest(OfKind(arg[1]))]
            IN IF d.length = 0
                 THEN ret = CUB_FILE_NOT_FOUND /\ sel = NoSel /\ sink = <<>>
                 ELSE /\ sel = <<d>>
                      /\ (Present(d) /\ arg[2] >= d.length)
                           => (ret = 0 /\ sink = PayloadOf(d))

C3_Witness ==
  /\ op = "type" /\ WellFormed
  /\ Cardinality(OfKind(arg[1])) > 1
  /\ NonEmptyOfKind(arg[1]) # {}
  /\ meta.toc[Lowest(OfKind(arg[1]))].length = 0
  /\ ret = CUB_FILE_NOT_FOUND

\* C4: cub_file_contents called with capacity < block_count returns Overflow
\* and writes no element of the caller's array; and no call writes an element
\* at an index >= capacity.
C4_Capacity ==
  (op = "contents" /\ HeaderPasses)
  => /\ (~CountSmall \/ arg[1] < BlockCount)
          => (ret = CUB_FILE_OVERFLOW /\ DOMAIN blocks = {})
     /\ \A i \in DOMAIN blocks : i < arg[1]

\* C4 for a block_count below 2^31: what cub_file_contents does keep.
C4_BelowTwoTo31 ==
  (op = "contents" /\ HeaderPasses)
  => /\ (CountSmall /\ arg[1] < BlockCount)
          => (ret = CUB_FILE_OVERFLOW /\ DOMAIN blocks = {})
     /\ \A i \in DOMAIN blocks : i < arg[1]

\* C5: when the first 4 bytes are not "CUBE", cub_file_check,
\* cub_file_contents, cub_file_block and cub_file_type return InvalidFormat
\* whatever follows, and produce no descriptors and no sink output.
C5_Magic ==
  (/\ op \in {"check", "contents", "block", "type"}
   /\ Len(file) >= Len(MagicTag) /\ ~MagicOk)
  => /\ ret = CUB_FILE_INVALID
     /\ DOMAIN blocks = {} /\ sink = <<>>
     /\ swapOut = <<>> /\ countOut = <<>>

C5_Witness ==
  /\ op = "type" /\ HeaderComplete /\ TagOk /\ ~MagicOk
  /\ file[4] # MagicTag[4]
  /\ ret = CUB_FILE_INVALID

\* C6: with the magic tag and a complete header, a word[0] that is neither
\* sentinel makes cub_file_check return CorruptFile and leave swap and count
\* unwritten; a sentinel makes it succeed with needs_swap = (the file's order
\* differs from the host's).
C6_EndianTag ==
  (op = "check" /\ MagicOk /\ HeaderComplete)
  => IF ~TagOk
       THEN ret = CUB_FILE_CORRUPT /\ swapOut = <<>> /\ countOut = <<>>
       ELSE /\ ret = 0
            /\ arg[1] => swapOut = <<IF meta.end # HostOrder THEN 1 ELSE 0>>
            /\ ~arg[1] => swapOut = <<>>
            /\ ~arg[2] => countOut = <<>>

C6_Witness ==
  /\ op = "check" /\ MagicOk /\ HeaderComplete /\ ~TagOk
  /\ meta.tag[4] = LITENDIAN[4]
  /\ arg[1] /\ arg[2]
  /\ ret = CUB_FILE_CORRUPT /\ swapOut = <<>> /\ countOut = <<>>

\* C7: the same header and TOC written big-endian or little-endian, read on a
\* host of either order, give the same count and the same descriptors in the
\* same order; the 4-byte swap is its own inverse.
C7_RoundTrip ==
  /\ (op = "check" /\ HeaderPasses /\ CountSmall /\ arg[2])
       => countOut = <<BlockCount>>
  /\ (op = "contents" /\ WellFormed /\ arg[1] >= BlockCount)
       => /\ ret = 0
          /\ DOMAIN blocks = 0..(BlockCount - 1)
          /\ \A i \in DOMAIN blocks : blocks[i] = meta.toc[i + 1]
  /\ HeaderComplete
       => LET raw == fread_bytes(file, Len(MagicTag), RecLen)
          IN swap_bytes(swap_bytes(raw, RecWords, WordSize), RecWords, WordSize) = raw

C7_Witness ==
  /\ op = "contents" /\ WellFormed /\ BlockCount = Len(TocDup)
  /\ meta.end = "B" /\ HostOrder = "L"
  /\ ret = 0 /\ DOMAIN blocks = 0..(BlockCount - 1)
  /\ blocks[2] = meta.toc[3]

\* C8: every scratch TOC buffer cub_file_list, cub_file_block and
\* cub_file_type allocate is released exactly once before the call returns, on
\* every exit path; after any sequence of calls no scratch buffer is live.
\* Stated on the files whose header and TOC are complete, where every call
\* runs the path the file asks for.
C8_NoLeak == WellFormed => (allocs = frees /\ live = 0)

\* C9: a truncated source is never reported as success: a lookup that returns
\* 0 has put exactly `length` bytes of the selected block into the sink, and
\* cub_file_contents returns non-zero when the TOC ends before block_count
\* records.
C9_Truncation ==
  /\ (IsLookup /\ HeaderPasses /\ ret = 0)
       => (sel # NoSel /\ Len(sink) = sel[1].length)
  /\ (op = "contents" /\ HeaderPasses /\ CountSmall /\ ~TocReadable
        /\ arg[1] >= BlockCount)
       => ret # 0

\* C10: cub_file_block with index < 0 on a file with block_count > 0 returns
\* NotFound, reads no element outside 0..block_count-1 and writes nothing.
C10_NegativeIndex ==
  (op = "block" /\ WellFormed /\ BlockCount > 0 /\ arg[1] < 0)
  => (ret = CUB_FILE_NOT_FOUND /\ ~oob /\ sink = <<>>)

====
